---- MODULE Spec2Model ----
(***************************************************************************)
(* Document generation pipeline of mergedoc_generator:                     *)
(* DocumentGenerator.generate_documents (invoice / sales_order),           *)
(* _group_document_data, _generate_filename, _create_output_directory and  *)
(* PDFBuilder.merge_pdfs.                                                  *)
(*                                                                         *)
(* A table is a sequence of rows; a row is a function from column names to *)
(* scalar values.  A scalar is a record [t, v]: its Python type and the    *)
(* text str() gives for it, so that 1 and "1" are different values with    *)
(* the same string form, and a missing cell (NaN) is a value that is not   *)
(* equal to itself under ==.                                               *)
(***************************************************************************)
EXTENDS Integers, Sequences, FiniteSets, TLC

VARIABLES
    columns,          \* data.columns
    data,             \* the DataFrame's rows, in table order
    document_range,   \* the document_range argument: None or a list of strings
    doc_cfg,          \* self.doc_cfg: the merged configuration
    pc,               \* position inside generate_documents
    grouped_data,     \* local grouped_data: ordered mapping key string -> row indices
    doc_idx,          \* number of groups the for loop has already consumed
    generated_files,  \* local generated_files
    mkdir_calls,      \* how many times output_dir.mkdir() has run
    disk,             \* files on disk: path -> pages
    log,              \* records emitted through logger
    error,            \* the exception that left generate_documents, if any
    result,           \* the returned list, once returned
    produced,         \* history: doc_num of every document rendered, in order
    read_failed,      \* history: indices of file_list whose read raised in merge_pdfs
    config_state,     \* DocumentConfig.__init__: its inputs, position and self.config
    main_state,       \* cli.main: its arguments, position and return value
    totals_state,     \* _create_totals_section: its inputs and the totals computed
    discover_state,   \* discover_document_types: the modules, position and result
    customer_state,   \* _create_customer_info: the first row, position and the text built
    calls,            \* history: one record per completed call of generate_documents
    frame_state       \* the objects of one call: table, configuration, groups

vars == <<columns, data, document_range, doc_cfg, pc, grouped_data, doc_idx,
          generated_files, mkdir_calls, disk, log, error, result, produced,
          read_failed, config_state, main_state, totals_state, discover_state,
          customer_state, calls>>

\* The variables of generate_documents, and those of the other operations.
gen_vars == <<columns, data, document_range, doc_cfg, pc, grouped_data, doc_idx,
              generated_files, mkdir_calls, disk, log, error, result, produced,
              read_failed>>

more_vars == <<customer_state, calls, frame_state>>

other_vars == <<config_state, main_state, totals_state, discover_state, more_vars>>

-----------------------------------------------------------------------------
(* Bounds of the model *)

MaxRows == 3      \* rows of the input table
MaxRange == 2     \* length of the document_range list
MaxPages == 2     \* pages one rendered document can have

-----------------------------------------------------------------------------
(* Scalars, None, str() and == *)

None == <<>>
Some(x) == <<x>>

\* The value of the state of an operation that a specification does not run.
Unused == [pc |-> "unused"]

NaN == [t |-> "missing", v |-> "nan"]

\* Cell values of the document-number column: the number 1, the strings "1"
\* and "A", and a missing cell.
RawKeys ==
    {[t |-> "int", v |-> "1"], [t |-> "str", v |-> "1"], [t |-> "str", v |-> "A"], NaN}

\* Strings a caller may list in document_range; "Z" is the key of no row.
RangeKeys == {"1", "A", "Z"}

OtherCell == [t |-> "str", v |-> "x"]

\* str(doc_num)
Str(value) == value.v

\* Elementwise comparison data[document_field] == doc_num: values of different
\* types are unequal, and a missing value equals nothing, itself included.
PyEq(a, b) == a.t # "missing" /\ b.t # "missing" /\ a = b

Range(s) == {s[i] : i \in DOMAIN s}

\* Python truthiness of an Optional[list]: None and [] are both falsy.
Truthy(opt) == opt # None /\ opt[1] # <<>>

-----------------------------------------------------------------------------
(* Ordered mappings (Python dict): a sequence of [k, v] entries *)

Keys(d) == [i \in DOMAIN d |-> d[i].k]

KeySet(d) == {d[i].k : i \in DOMAIN d}

HasKey(d, k) == \E i \in DOMAIN d : d[i].k = k

Get(d, k) == d[CHOOSE i \in DOMAIN d : d[i].k = k].v

\* d[k] = v: an existing key keeps its position and takes the new value, a
\* new key goes to the end.
DictSet(d, k, v) ==
    IF HasKey(d, k)
    THEN [i \in DOMAIN d |-> IF d[i].k = k THEN [k |-> k, v |-> v] ELSE d[i]]
    ELSE Append(d, [k |-> k, v |-> v])

-----------------------------------------------------------------------------
(* _group_document_data *)

Column(rows, field) == [i \in DOMAIN rows |-> rows[i][field]]

Indices(s) == [i \in 1..Len(s) |-> i]

\* Series.unique(): the distinct values in order of first appearance; every
\* missing value is the same value for the hash table.
Unique(col) ==
    LET first == SelectSeq(Indices(col), LAMBDA i : \A j \in 1..(i - 1) : col[j] # col[i])
    IN  [n \in DOMAIN first |-> col[first[n]]]

\* data[data[document_field] == doc_num].copy(): the selected rows (by index),
\* in table order.
FilterRows(col, doc_num) == SelectSeq(Indices(col), LAMBDA i : PyEq(col[i], doc_num))

RECURSIVE GroupLoop(_, _, _)
GroupLoop(col, doc_nums, grouped) ==
    IF doc_nums = <<>>
    THEN grouped
    ELSE GroupLoop(col, Tail(doc_nums),
                   DictSet(grouped, Str(Head(doc_nums)), FilterRows(col, Head(doc_nums))))

_group_document_data(rows, document_field) ==
    LET col == Column(rows, document_field)
    IN  GroupLoop(col, Unique(col), <<>>)

-----------------------------------------------------------------------------
(* Inputs *)

SeqsUpTo(S, n) == UNION {[1..m -> S] : m \in 0..n}

DocumentField == "invoice_number"

ColumnSets == {{"customer_name"}, {DocumentField, "customer_name"}}

Row(cols, key) == [c \in cols |-> IF c = DocumentField THEN key ELSE OtherCell]

\* Every table of at most MaxRows rows over the given columns.
Tables(cols) ==
    IF DocumentField \in cols
    THEN {[i \in DOMAIN ks |-> Row(cols, ks[i])] : ks \in SeqsUpTo(RawKeys, MaxRows)}
    ELSE {[i \in 1..m |-> Row(cols, NaN)] : m \in 0..MaxRows}

DocumentRanges == {None} \cup {Some(r) : r \in SeqsUpTo(RangeKeys, MaxRange)}

Configs ==
    [fields : [document_number_field : {DocumentField}],
     output : [individual_files : BOOLEAN,
               merged_file : BOOLEAN,
               output_directory : {"invoices"},
               filename_template : {<<"invoice_", "{document_number}", ".pdf">>}]]

Init ==
    /\ columns \in ColumnSets
    /\ data \in Tables(columns)
    /\ document_range \in DocumentRanges
    /\ doc_cfg \in Configs
    /\ pc = "start"
    /\ grouped_data = <<>>
    /\ doc_idx = 0
    /\ generated_files = <<>>
    /\ mkdir_calls = 0
    /\ disk = <<>>
    /\ log = <<>>
    /\ error = None
    /\ result = None
    /\ produced = <<>>
    /\ read_failed = {}
    /\ config_state = Unused
    /\ main_state = Unused
    /\ totals_state = Unused
    /\ discover_state = Unused
    /\ customer_state = Unused /\ frame_state = Unused
    /\ calls = <<>>

\* Faulty variant of MissingField: the column check runs after the output directory
\* has been created.
MissingField_AfterMkdir ==
    /\ UNCHANGED other_vars
    /\ pc = "start"
    /\ doc_cfg.fields.document_number_field \notin columns
    /\ mkdir_calls' = mkdir_calls + 1
    /\ pc' = "failed"
    /\ error' = Some([type |-> "ValueError", doc |-> None])
    /\ UNCHANGED <<columns, data, document_range, doc_cfg, grouped_data, doc_idx,
                   generated_files, disk, log, result, produced, read_failed>>

\* if document_field not in data.columns: raise ValueError
MissingField ==
    /\ UNCHANGED other_vars
    /\ pc = "start"
    /\ doc_cfg.fields.document_number_field \notin columns
    /\ pc' = "failed"
    /\ error' = Some([type |-> "ValueError", doc |-> None])
    /\ UNCHANGED <<columns, data, document_range, doc_cfg, grouped_data, doc_idx,
                   generated_files, mkdir_calls, disk, log, result, produced,
                   read_failed>>

\* grouped_data = self._group_document_data(data, document_field)
GroupData ==
    /\ UNCHANGED other_vars
    /\ pc = "start"
    /\ doc_cfg.fields.document_number_field \in columns
    /\ grouped_data' = _group_document_data(data, doc_cfg.fields.document_number_field)
    /\ pc' = "grouped"
    /\ UNCHANGED <<columns, data, document_range, doc_cfg, doc_idx, generated_files,
                   mkdir_calls, disk, log, error, result, produced, read_failed>>

\* Faulty variant of FilterByRange: the filtered mapping is dropped, every group stays.
FilterByRange_NotApplied(grouped, range) == grouped

\* Faulty variant of FilterByRange: the filter list is walked and each of its keys
\* that has a group contributes the group.
FilterByRange_RangeOrder(grouped, range) ==
    IF Truthy(range)
    THEN LET hits == SelectSeq(range[1], LAMBDA k : HasKey(grouped, k))
         IN  [i \in DOMAIN hits |-> [k |-> hits[i], v |-> Get(grouped, hits[i])]]
    ELSE grouped

\* if document_range:
\*     grouped_data = {k: v for k, v in grouped_data.items() if k in document_range}
FilterByRange(grouped, range) ==
    IF Truthy(range)
    THEN SelectSeq(grouped, LAMBDA e : e.k \in Range(range[1]))
    ELSE grouped

FilterRange ==
    /\ UNCHANGED other_vars
    /\ pc = "grouped"
    /\ grouped_data' = FilterByRange(grouped_data, document_range)
    /\ pc' = "filtered"
    /\ UNCHANGED <<columns, data, document_range, doc_cfg, doc_idx, generated_files,
                   mkdir_calls, disk, log, error, result, produced, read_failed>>

-----------------------------------------------------------------------------
(* Paths, files and pages *)

\* Faulty variant of _generate_filename: the template is used as it stands.
_generate_filename_Unformatted(cfg, document_number) == cfg.output.filename_template

\* template.format(document_number=document_number)
_generate_filename(cfg, document_number) ==
    LET template == cfg.output.filename_template
    IN  [i \in DOMAIN template |->
            IF template[i] = "{document_number}" THEN document_number ELSE template[i]]

\* output_dir / filename
PathJoin(dir, filename) == [dir |-> dir, name |-> filename]

\* datetime.now().strftime('%Y%m%d_%H%M%S')
Now == "%Y%m%d_%H%M%S"

MergedFilename(cfg) ==
    PathJoin(cfg.output.output_directory, <<"merged_invoices_", Now, ".pdf">>)

\* The pages the renderer writes for one document.
Pages(doc_num, n) == [i \in 1..n |-> [doc |-> doc_num, n |-> i]]

\* The file system after path has been (over)written with content.
WriteFile(fs, path, content) ==
    [p \in DOMAIN fs \cup {path} |-> IF p = path THEN content ELSE fs[p]]

LogRecord(level, msg, path) == [level |-> level, msg |-> msg, path |-> path]

\* The output directory exists when the call starts: an earlier call has
\* created it.
DirectoryExisted == calls # <<>> /\ calls[1].mkdir_calls > 0

\* Faulty variant of CreateOutputDirectory: mkdir without exist_ok raises when the
\* directory exists.
CreateOutputDirectory_FailsIfExists ==
    /\ UNCHANGED other_vars
    /\ pc = "filtered"
    /\ mkdir_calls' = mkdir_calls + 1
    /\ pc' = IF DirectoryExisted THEN "failed" ELSE "loop"
    /\ error' = IF DirectoryExisted
                THEN Some([type |-> "FileExistsError", doc |-> None])
                ELSE error
    /\ UNCHANGED <<columns, data, document_range, doc_cfg, grouped_data, doc_idx,
                   generated_files, disk, log, result, produced, read_failed>>

\* output_dir = self._create_output_directory(), after generated_files = []
CreateOutputDirectory ==
    /\ UNCHANGED other_vars
    /\ pc = "filtered"
    /\ mkdir_calls' = mkdir_calls + 1
    /\ pc' = "loop"
    /\ UNCHANGED <<columns, data, document_range, doc_cfg, grouped_data, doc_idx,
                   generated_files, disk, log, error, result, produced, read_failed>>

-----------------------------------------------------------------------------
(* The per-document loop *)

InLoop ==
    /\ pc = "loop"
    /\ doc_cfg.output.individual_files
    /\ doc_idx < Len(grouped_data)

\* Faulty variant of LoopOver: the statements after the loop can run while documents
\* are left.
LoopOver_Early == pc = "loop"

LoopOver ==
    /\ pc = "loop"
    /\ ~doc_cfg.output.individual_files \/ doc_idx = Len(grouped_data)

\* One iteration whose _create_invoice_pdf returns: the file is written, its
\* path appended and the generation logged.  invoice_data.iloc[0] needs a row.
RenderDocument ==
    /\ UNCHANGED other_vars
    /\ InLoop
    /\ LET doc_num == grouped_data[doc_idx + 1].k
           doc_data == grouped_data[doc_idx + 1].v
           filepath == PathJoin(doc_cfg.output.output_directory,
                                _generate_filename(doc_cfg, doc_num))
       IN  /\ doc_data # <<>>
           /\ \E n \in 1..MaxPages : disk' = WriteFile(disk, filepath, Pages(doc_num, n))
           /\ generated_files' = Append(generated_files, filepath)
           /\ log' = Append(log, LogRecord("INFO", "Generated invoice", filepath))
           /\ produced' = Append(produced, doc_num)
    /\ doc_idx' = doc_idx + 1
    /\ UNCHANGED <<columns, data, document_range, doc_cfg, pc, grouped_data,
                   mkdir_calls, error, result, read_failed>>

\* One iteration whose _create_invoice_pdf raises: nothing catches it, so the
\* exception leaves generate_documents.  An empty group always raises
\* (IndexError at iloc[0]); any other group may (section building, renderer).
RenderRaises ==
    /\ UNCHANGED other_vars
    /\ InLoop
    /\ LET doc_num == grouped_data[doc_idx + 1].k
           doc_data == grouped_data[doc_idx + 1].v
       IN  error' = Some([type |-> IF doc_data = <<>> THEN "IndexError" ELSE "RenderError",
                          doc |-> Some(doc_num)])
    /\ pc' = "failed"
    /\ UNCHANGED <<columns, data, document_range, doc_cfg, grouped_data, doc_idx,
                   generated_files, mkdir_calls, disk, log, result, produced,
                   read_failed>>

-----------------------------------------------------------------------------
(* PDFBuilder.merge_pdfs *)

\* How the try block of one file can end: without an exception after every
\* page was added, or with an exception after fewer pages were added (none
\* when PdfReader(filepath) itself raises).
ReadOutcomes(pages) ==
    {[raised |-> FALSE, added |-> Len(pages)]}
        \cup {[raised |-> TRUE, added |-> k] : k \in 0..(Len(pages) - 1)}

AllReadOutcomes == [raised : BOOLEAN, added : 0..MaxPages]

\* The for loop of merge_pdfs from file i on; w is the writer's page list and
\* errs the logger.error records so far.
RECURSIVE MergeLoop(_, _, _, _, _, _)
MergeLoop(file_list, fs, outcomes, i, w, errs) ==
    IF i > Len(file_list)
    THEN [pages |-> w, errors |-> errs]
    ELSE LET filepath == file_list[i]
             added == SubSeq(fs[filepath], 1, outcomes[i].added)
         IN  MergeLoop(file_list, fs, outcomes, i + 1, w \o added,
                       IF outcomes[i].raised
                       THEN Append(errs, LogRecord("ERROR", "Error reading PDF", filepath))
                       ELSE errs)

\* Faulty variant of merge_pdfs: each file's pages go in front of the pages added so
\* far instead of behind them.
RECURSIVE MergeLoop_Prepend(_, _, _, _, _, _)
MergeLoop_Prepend(file_list, fs, outcomes, i, w, errs) ==
    IF i > Len(file_list)
    THEN [pages |-> w, errors |-> errs]
    ELSE LET filepath == file_list[i]
             added == SubSeq(fs[filepath], 1, outcomes[i].added)
         IN  MergeLoop_Prepend(file_list, fs, outcomes, i + 1, added \o w,
                               IF outcomes[i].raised
                               THEN Append(errs, LogRecord("ERROR", "Error reading PDF", filepath))
                               ELSE errs)

merge_pdfs_Prepend(file_list, fs, outcomes) ==
    MergeLoop_Prepend(file_list, fs, outcomes, 1, <<>>, <<>>)

merge_pdfs(file_list, fs, outcomes) == MergeLoop(file_list, fs, outcomes, 1, <<>>, <<>>)

\* Faulty variant of MergeRequested: the list of generated files is not looked at.
MergeRequested_AnyList == doc_cfg.output.merged_file

MergeRequested == doc_cfg.output.merged_file /\ generated_files # <<>>

\* Faulty variant of Returned: the merged file's path is appended to the returned list.
Returned_WithMerged(files, merged_filename) == Append(files, merged_filename)

\* return generated_files
Returned(files, merged_filename) == files

\* The merged file is built and written, then the list is returned.
MergeAndReturn ==
    /\ UNCHANGED other_vars
    /\ LoopOver
    /\ MergeRequested
    /\ \E outcomes \in [1..Len(generated_files) -> AllReadOutcomes] :
          /\ \A i \in 1..Len(generated_files) :
                outcomes[i] \in ReadOutcomes(disk[generated_files[i]])
          /\ LET merged_filename == MergedFilename(doc_cfg)
                 m == merge_pdfs(generated_files, disk, outcomes)
             IN  /\ disk' = WriteFile(disk, merged_filename, m.pages)
                 /\ log' = log \o m.errors
                           \o <<LogRecord("INFO", "Generated merged file", merged_filename)>>
                 /\ result' = Some(Returned(generated_files, merged_filename))
          /\ read_failed' = {i \in 1..Len(generated_files) : outcomes[i].raised}
    /\ pc' = "done"
    /\ UNCHANGED <<columns, data, document_range, doc_cfg, grouped_data, doc_idx,
                   generated_files, mkdir_calls, error, produced>>

\* open(output_path, 'wb') raises: merge_pdfs does not catch it and neither
\* does generate_documents.
MergeWriteRaises ==
    /\ UNCHANGED other_vars
    /\ LoopOver
    /\ MergeRequested
    /\ error' = Some([type |-> "OSError", doc |-> None])
    /\ pc' = "failed"
    /\ UNCHANGED <<columns, data, document_range, doc_cfg, grouped_data, doc_idx,
                   generated_files, mkdir_calls, disk, log, result, produced,
                   read_failed>>

\* No merged file requested, or nothing was generated: return generated_files.
ReturnFiles ==
    /\ UNCHANGED other_vars
    /\ LoopOver
    /\ ~MergeRequested
    /\ result' = Some(Returned(generated_files, MergedFilename(doc_cfg)))
    /\ pc' = "done"
    /\ UNCHANGED <<columns, data, document_range, doc_cfg, grouped_data, doc_idx,
                   generated_files, mkdir_calls, disk, log, error, produced,
                   read_failed>>

Next ==
    \/ MissingField
    \/ GroupData
    \/ FilterRange
    \/ CreateOutputDirectory
    \/ RenderDocument
    \/ RenderRaises
    \/ MergeAndReturn
    \/ MergeWriteRaises
    \/ ReturnFiles

Spec == Init /\ [][Next]_vars

-----------------------------------------------------------------------------
(* Helpers of the properties *)

HasDocumentField == doc_cfg.fields.document_number_field \in columns

KeyColumn == Column(data, doc_cfg.fields.document_number_field)

IndividualFiles == doc_cfg.output.individual_files

MergedWritten == MergedFilename(doc_cfg) \in DOMAIN disk

FilePath(doc_num) ==
    PathJoin(doc_cfg.output.output_directory, _generate_filename(doc_cfg, doc_num))

RECURSIVE Concat(_)
Concat(ss) == IF ss = <<>> THEN <<>> ELSE Head(ss) \o Concat(Tail(ss))

Increasing(s) == \A i, j \in DOMAIN s : i < j => s[i] < s[j]

\* The rows (by index) whose key has the string form k, in table order.
RowsWithKeyString(col, k) == SelectSeq(Indices(col), LAMBDA r : Str(col[r]) = k)

\* The key strings of the table in order of first appearance.
KeyStrings(col) == Unique([i \in DOMAIN col |-> Str(col[i])])

\* The render of a group that has rows raised.
RenderFailed == error # None /\ error[1].type = "RenderError"

-----------------------------------------------------------------------------
(* Properties *)

\* C1: _group_document_data partitions the table exactly: every row is in
\* exactly one group, none lost or duplicated, each group in table order;
\* tables with missing keys and with keys of equal string form included.
C1_GroupingPartitionsTable ==
    pc = "grouped" =>
        /\ \A r \in DOMAIN data :
              Cardinality({i \in DOMAIN grouped_data : r \in Range(grouped_data[i].v)}) = 1
        /\ \A i \in DOMAIN grouped_data :
              /\ Range(grouped_data[i].v) \subseteq DOMAIN data
              /\ Increasing(grouped_data[i].v)

\* C2: a render failure of one document, with documents still to come, does
\* not abort the run: the run goes on and returns the paths of all the others.
C2_RenderFailureDoesNotAbort ==
    /\ (RenderFailed /\ \E j \in (doc_idx + 2)..Len(grouped_data) : grouped_data[j].v # <<>>)
           => pc # "failed"
    /\ (RenderFailed /\ pc = "done") => Len(result[1]) = Len(grouped_data) - 1

\* C3: the mapping's keys are in order of first appearance in the table, and
\* the group of a key holds all the rows carrying that key, contiguous or not.
C3_FirstAppearanceOrderAllRows ==
    pc = "grouped" =>
        /\ Keys(grouped_data) = KeyStrings(KeyColumn)
        /\ \A i \in DOMAIN grouped_data :
              grouped_data[i].v = RowsWithKeyString(KeyColumn, grouped_data[i].k)

\* C4: two rows whose keys differ in type but have the same string form are
\* one document: exactly one group has that string key and it holds both rows.
C4_SameStringFormSameGroup ==
    pc = "grouped" =>
        \A r1, r2 \in DOMAIN data :
            (/\ KeyColumn[r1].t # KeyColumn[r2].t
             /\ KeyColumn[r1].t # "missing" /\ KeyColumn[r2].t # "missing"
             /\ Str(KeyColumn[r1]) = Str(KeyColumn[r2]))
            => /\ Cardinality({i \in DOMAIN grouped_data :
                                  grouped_data[i].k = Str(KeyColumn[r1])}) = 1
               /\ {r1, r2} \subseteq Range(Get(grouped_data, Str(KeyColumn[r1])))

\* The key strings of the grouping of the table, and those a filter selects
\* when a non-empty filter restricts and None or an empty list does not.
GroupingKeys == Range(Keys(_group_document_data(data, doc_cfg.fields.document_number_field)))

SelectedKeys ==
    LET all == GroupingKeys
    IN  IF Truthy(document_range) THEN all \cap Range(document_range[1]) ELSE all

PastFilter == pc \in {"filtered", "loop", "done"} \/ (pc = "failed" /\ HasDocumentField)

\* C5 (as claimed): for any filter list, the documents produced are exactly
\* the keys that are both in the filter list and in the grouping.
C5_ProducedIsFilterMeetGrouping ==
    (pc = "done" /\ document_range # None /\ IndividualFiles)
        => Range(produced) = GroupingKeys \cap Range(document_range[1])

\* C5 (amended): a non-empty filter list selects exactly the keys that are in
\* the filter and in the grouping (an absent key is dropped without error, no
\* key outside the filter is selected or produced); an empty list selects
\* every group, as None does; a run that completes with individual files on
\* has produced exactly the selected keys.
C5_NonEmptyFilterSelectsMeet ==
    PastFilter =>
        LET selected == SelectedKeys
        IN  /\ Range(Keys(grouped_data)) = selected
            /\ Range(produced) \subseteq selected
            /\ (pc = "done" /\ IndividualFiles) => Range(produced) = selected
            /\ pc = "failed" => error[1].type \in {"IndexError", "RenderError", "OSError"}

\* C5 witness: filter ["A", "Z"] against keys "1" and "A": only A is produced.
C5_Witness ==
    /\ pc = "done"
    /\ document_range = Some(<<"A", "Z">>)
    /\ GroupingKeys = {"1", "A"}
    /\ produced = <<"A">>

\* C6: when the document-number field is not a column, generate_documents
\* raises before any grouping, before the output directory is created and
\* before any document or merged file is written.
C6_MissingFieldFailsFirst ==
    ~HasDocumentField =>
        /\ pc \in {"start", "failed"}
        /\ grouped_data = <<>> /\ doc_idx = 0
        /\ mkdir_calls = 0
        /\ DOMAIN disk = {} /\ generated_files = <<>> /\ log = <<>>
        /\ result = None
        /\ pc = "failed" => error = Some([type |-> "ValueError", doc |-> None])

\* C6 witness: a table with rows and no document-number column, both outputs
\* requested, after the call has raised.
C6_Witness ==
    /\ ~HasDocumentField
    /\ pc = "failed"
    /\ Len(data) >= 2
    /\ IndividualFiles /\ doc_cfg.output.merged_file

\* C7: a row with a missing document key makes the run fail before any output
\* is produced; no documents are generated for the other rows (stated for a
\* call without a filter that writes individual files).
C7_MissingKeyFailsBeforeOutput ==
    (/\ HasDocumentField /\ IndividualFiles /\ document_range = None
     /\ \E r \in DOMAIN data : KeyColumn[r].t = "missing")
        => /\ pc # "done"
           /\ DOMAIN disk = {}

\* C8: generate_documents returns the paths of the individual documents
\* produced, in generation (group) order, and the merged file's path is never
\* in the returned list.
C8_ReturnsIndividualPathsInOrder ==
    /\ pc = "done" <=> result # None
    /\ pc = "done" =>
          /\ result[1] = [i \in DOMAIN produced |-> FilePath(produced[i])]
          /\ produced = (IF IndividualFiles THEN Keys(grouped_data) ELSE <<>>)
          /\ Range(result[1]) \subseteq DOMAIN disk
          /\ MergedFilename(doc_cfg) \notin Range(result[1])

\* C8 witness: a run that returned two paths and wrote the merged file.
C8_Witness ==
    /\ pc = "done"
    /\ MergedWritten
    /\ Len(result[1]) = 2
    /\ result[1][1] # result[1][2]

\* The first n pages of every file of the list, file by file.
Blocks(file_list, fs, lens) ==
    Concat([i \in DOMAIN file_list |-> SubSeq(fs[file_list[i]], 1, lens[i])])

FullLens(file_list, fs) == [i \in DOMAIN file_list |-> Len(fs[file_list[i]])]

\* C9 (as claimed): the merged file is the pages of every produced file, file
\* by file, each with all of its pages, in generation order.
C9_MergedIsAllPagesInOrder ==
    MergedWritten =>
        disk[MergedFilename(doc_cfg)]
            = Blocks(generated_files, disk, FullLens(generated_files, disk))

\* C9 (amended): the merged file is one contiguous block per produced file, in
\* generation order: all the pages of a file read without error, and only the
\* pages added before the error (possibly none) of a file whose read failed.
C9_MergedIsBlocksInOrder ==
    MergedWritten =>
        \E lens \in [DOMAIN generated_files -> 0..MaxPages] :
            /\ \A i \in DOMAIN generated_files :
                  /\ lens[i] <= Len(disk[generated_files[i]])
                  /\ i \notin read_failed => lens[i] = Len(disk[generated_files[i]])
                  /\ i \in read_failed => lens[i] < Len(disk[generated_files[i]])
            /\ disk[MergedFilename(doc_cfg)] = Blocks(generated_files, disk, lens)

\* C9 witness: two files of two pages each were merged without a read error.
C9_Witness ==
    /\ MergedWritten
    /\ read_failed = {}
    /\ Len(generated_files) = 2
    /\ \A i \in 1..2 : Len(disk[generated_files[i]]) = 2
    /\ Len(disk[MergedFilename(doc_cfg)]) = 4

\* C10: a file whose read fails in merge_pdfs is logged and contributes no
\* pages; the other files are merged, the output is written and nothing
\* propagates.
C10_FailedReadContributesNothing ==
    (pc = "done" /\ MergeRequested) =>
        /\ MergedWritten
        /\ Cardinality({i \in DOMAIN log : log[i].level = "ERROR"}) = Cardinality(read_failed)
        /\ disk[MergedFilename(doc_cfg)]
              = Blocks(generated_files, disk,
                       [i \in DOMAIN generated_files |->
                           IF i \in read_failed THEN 0 ELSE Len(disk[generated_files[i]])])

-----------------------------------------------------------------------------
(***************************************************************************)
(* DocumentConfig: configuration trees, _update_nested_dict, load_config   *)
(*                                                                         *)
(* A JSON value is a record [tag, val]: a scalar, a list, or a dict whose  *)
(* val is an ordered mapping (sequence of [k, v] entries) as above.  The   *)
(* content of a file is a JSON value, or Malformed when json.load fails.   *)
(***************************************************************************)

MaxDepth == 1     \* nesting depth of mappings below the top level

Scalar(x) == [tag |-> "scalar", val |-> <<x>>]
List(xs) == [tag |-> "list", val |-> xs]
Dict(entries) == [tag |-> "dict", val |-> entries]
Malformed == [tag |-> "malformed", val |-> <<>>]

\* isinstance(value, dict)
IsDict(value) == value.tag = "dict"

\* Faulty variant of ShouldRecurse: a nested mapping is never merged into.
ShouldRecurse_Never(base_dict, key, value) == FALSE

\* key in base_dict and isinstance(base_dict[key], dict) and isinstance(value, dict)
ShouldRecurse(base_dict, key, value) ==
    HasKey(base_dict, key) /\ IsDict(Get(base_dict, key)) /\ IsDict(value)

\* Faulty variant of AssignValue: a key the base already has keeps its value.
AssignValue_KeepBase(base_dict, key, value) ==
    IF HasKey(base_dict, key) THEN base_dict ELSE DictSet(base_dict, key, value)

\* Faulty variant of AssignValue: a list is appended to the list already there.
AssignValue_ExtendList(base_dict, key, value) ==
    IF HasKey(base_dict, key) /\ Get(base_dict, key).tag = "list" /\ value.tag = "list"
    THEN DictSet(base_dict, key, List(Get(base_dict, key).val \o value.val))
    ELSE DictSet(base_dict, key, value)

\* Faulty variant of AssignValue: a key that is new to the mapping takes the
\* place of the keys already there.
AssignValue_NewKeyAlone(base_dict, key, value) ==
    IF HasKey(base_dict, key)
    THEN DictSet(base_dict, key, value)
    ELSE <<[k |-> key, v |-> value]>>

\* base_dict[key] = value
AssignValue(base_dict, key, value) == DictSet(base_dict, key, value)

\* The for loop of _update_nested_dict over update_dict.items(); the mapping
\* returned is base_dict after the in-place update.
RECURSIVE _update_nested_dict(_, _)
_update_nested_dict(base_dict, update_dict) ==
    IF update_dict = <<>>
    THEN base_dict
    ELSE LET key == Head(update_dict).k
             value == Head(update_dict).v
             updated ==
                 IF ShouldRecurse(base_dict, key, value)
                 THEN DictSet(base_dict, key,
                              Dict(_update_nested_dict(Get(base_dict, key).val, value.val)))
                 ELSE AssignValue(base_dict, key, value)
         IN  _update_nested_dict(updated, Tail(update_dict))

\* load_config(config_file) on a file with the given content: json.load raises
\* on a malformed file and user_config.items() raises on a JSON value that is
\* not an object; either exception is caught and logged and self.config stays
\* as it was.  Otherwise the content is merged into self.config.
load_config(config, content, config_file) ==
    IF IsDict(content)
    THEN [config |-> _update_nested_dict(config, content.val),
          log |-> <<LogRecord("INFO", "Configuration loaded", config_file)>>]
    ELSE [config |-> config,
          log |-> <<LogRecord("ERROR", "Error loading config file", config_file)>>]

-----------------------------------------------------------------------------
(* Configuration trees of bounded depth *)

TopKeys == {"output", "page_size"}

\* Mappings over the two keys of a level, in either order of the keys: the
\* first key may hold a nested mapping, the second holds leaves only.
RECURSIVE DictsOver(_, _, _)
DictsOver(depth, leaves, nested) ==
    LET deep == IF nested THEN "margins" ELSE "output"
        flat == IF nested THEN "merged_file" ELSE "page_size"
        below == IF depth > 0
                 THEN {Dict(d) : d \in DictsOver(depth - 1, leaves, TRUE)}
                 ELSE {}
        deep_entries == {[k |-> deep, v |-> x] : x \in leaves \cup below}
        flat_entries == {[k |-> flat, v |-> x] : x \in leaves}
    IN  {<<>>}
            \cup {<<a>> : a \in deep_entries}
            \cup {<<b>> : b \in flat_entries}
            \cup {<<a, b>> : a \in deep_entries, b \in flat_entries}
            \cup {<<b, a>> : a \in deep_entries, b \in flat_entries}

DefaultLeaves == {Scalar("default"), List(<<"d1", "d2">>)}
UserLeaves == {Scalar("user"), List(<<"u1">>)}

\* The keys of a mapping stand in the order in which the code writes them.
RECURSIVE InSourceOrder(_)
InSourceOrder(d) ==
    \A i \in DOMAIN d :
        /\ i < Len(d) => d[i].k \in {"output", "margins"}
        /\ IsDict(d[i].v) => InSourceOrder(d[i].v.val)

\* get_default_config(): a tree with a value for every top-level key.
DefaultTrees ==
    {d \in DictsOver(MaxDepth, DefaultLeaves, FALSE) :
        KeySet(d) = TopKeys /\ InSourceOrder(d)}

\* What a configuration file can hold.
FileContents ==
    {Malformed, Scalar("user"), List(<<"u1">>)}
        \cup {Dict(d) : d \in DictsOver(MaxDepth, UserLeaves, FALSE)}

-----------------------------------------------------------------------------
(* load_config on any defaults and any file *)

LoadInit ==
    /\ \E defaults \in DefaultTrees :
       \E content \in FileContents \cup {Dict(defaults)} :
          config_state = [pc |-> "constructed", defaults |-> defaults, content |-> content,
                          config |-> defaults, history |-> <<>>, log |-> <<>>]
    /\ columns = {} /\ data = <<>> /\ document_range = None
    /\ doc_cfg = Unused /\ pc = "unused" /\ grouped_data = <<>> /\ doc_idx = 0
    /\ generated_files = <<>> /\ mkdir_calls = 0 /\ disk = <<>> /\ log = <<>>
    /\ error = None /\ result = None /\ produced = <<>> /\ read_failed = {}
    /\ main_state = Unused /\ totals_state = Unused /\ discover_state = Unused
    /\ customer_state = Unused /\ frame_state = Unused /\ calls = <<>>

\* self.load_config(config_file); a second call loads the same file again.
LoadConfig ==
    /\ config_state.pc \in {"constructed", "loaded"}
    /\ Len(config_state.history) < 2
    /\ LET r == load_config(config_state.config, config_state.content, "config.json")
       IN  config_state' = [config_state EXCEPT !.pc = "loaded",
                                                !.config = r.config,
                                                !.history = Append(@, r.config),
                                                !.log = @ \o r.log]
    /\ UNCHANGED <<gen_vars, more_vars, main_state, totals_state, discover_state>>

LoadNext == LoadConfig

LoadSpec == LoadInit /\ [][LoadNext]_vars

-----------------------------------------------------------------------------
(* Properties of load_config and _update_nested_dict *)

\* The key paths of a mapping, at every nesting depth.
RECURSIVE PathsOf(_)
PathsOf(d) ==
    UNION {{<<d[i].k>>} \cup
           (IF IsDict(d[i].v) THEN {<<d[i].k>> \o p : p \in PathsOf(d[i].v.val)} ELSE {}) :
           i \in DOMAIN d}

\* The value a mapping holds at a key path that it has.
RECURSIVE ValueAt(_, _)
ValueAt(d, p) ==
    IF Len(p) = 1 THEN Get(d, p[1]) ELSE ValueAt(Get(d, p[1]).val, Tail(p))

\* Python equality of JSON values: mappings compare without regard to order.
RECURSIVE ValEq(_, _)
ValEq(x, y) ==
    IF IsDict(x) /\ IsDict(y)
    THEN /\ KeySet(x.val) = KeySet(y.val)
         /\ \A k \in KeySet(x.val) : ValEq(Get(x.val, k), Get(y.val, k))
    ELSE x.tag = y.tag /\ x = y

\* The file held a JSON object and load_config has merged it.
Merged == config_state.pc = "loaded" /\ IsDict(config_state.content)

\* The configuration after the first load_config.
FirstMerged == config_state.history[1]

Shadowed(override, p) ==
    \E n \in 1..(Len(p) - 1) :
        /\ SubSeq(p, 1, n) \in PathsOf(override)
        /\ ~IsDict(ValueAt(override, SubSeq(p, 1, n)))

C12_DefaultKeysSurvive ==
    config_state.pc = "loaded" =>
        \A p \in PathsOf(config_state.defaults) : p \in PathsOf(config_state.config)

\* C13: deep-merge idempotence: merging an override equal to the defaults
\* yields a configuration equal to the defaults, and merging any override a
\* second time leaves the configuration as the first merge left it.
C13_MergeIdempotent ==
    config_state.pc = "loaded" =>
        /\ ValEq(config_state.content, Dict(config_state.defaults)) =>
               ValEq(Dict(config_state.config), Dict(config_state.defaults))
        /\ Len(config_state.history) = 2 =>
               ValEq(Dict(config_state.history[2]), Dict(config_state.history[1]))

\* C13 witness: the defaults, holding a nested mapping and a list, have been
\* merged twice into themselves.
C13_Witness ==
    /\ config_state.pc = "loaded"
    /\ Len(config_state.history) = 2
    /\ ValEq(config_state.content, Dict(config_state.defaults))
    /\ \E p \in PathsOf(config_state.defaults) :
           Len(p) = 2 /\ ValueAt(config_state.defaults, p).tag = "list"

\* The mappings that hold the keys and values of the override in some other
\* order of the keys, at every nesting level.
RECURSIVE Reorderings(_)
Reorderings(override) ==
    LET Alternatives(entry) ==
            IF IsDict(entry.v)
            THEN {[k |-> entry.k, v |-> Dict(d)] : d \in Reorderings(entry.v.val)}
            ELSE {entry}
        Without(i) == SubSeq(override, 1, i - 1) \o SubSeq(override, i + 1, Len(override))
    IN  IF override = <<>>
        THEN {<<>>}
        ELSE UNION {{<<first>> \o rest : first \in Alternatives(override[i]),
                                         rest \in Reorderings(Without(i))} :
                    i \in DOMAIN override}

\* C22: the deep merge does not depend on the order in which the keys of the
\* override are processed: for the same base, every reordering of the
\* override's keys, at every nesting level, gives an equal merged mapping.
C22_MergeOrderIndependent ==
    Merged =>
        \A reordered \in Reorderings(config_state.content.val) :
            ValEq(Dict(_update_nested_dict(config_state.defaults, reordered)),
                  Dict(FirstMerged))

\* C22 witness: the override has two keys at the top level and two keys in a
\* nested mapping, one of which is new to the nested mapping of the base, so
\* that it has four orders of processing.
C22_Witness ==
    /\ Merged
    /\ Cardinality(Reorderings(config_state.content.val)) = 4
    /\ \E p \in PathsOf(config_state.content.val) :
           /\ Len(p) = 2
           /\ SubSeq(p, 1, 1) \in PathsOf(config_state.defaults)
           /\ IsDict(ValueAt(config_state.defaults, SubSeq(p, 1, 1)))
           /\ p \notin PathsOf(config_state.defaults)

\* Both the base and the override hold a mapping at the key path.
BothMappings(base, override, p) ==
    /\ p \in PathsOf(base) /\ p \in PathsOf(override)
    /\ IsDict(ValueAt(base, p)) /\ IsDict(ValueAt(override, p))

\* C23: the merge recurses only at a key where the base and the override
\* both hold mappings, and there the keys of the base's mapping are kept; at
\* every other key of the override (the override's value is a list or a
\* scalar, the base's value is a list or a scalar, or the key is new) the
\* merged mapping holds the override's value itself, so that no element of a
\* list of the base is left at a key the override has.
C23_NonMappingsReplacedWholesale ==
    Merged =>
        LET base == config_state.defaults
            override == config_state.content.val
            merged == FirstMerged
        IN  \A p \in PathsOf(override) :
                /\ p \in PathsOf(merged)
                /\ IF BothMappings(base, override, p)
                   THEN /\ IsDict(ValueAt(merged, p))
                        /\ KeySet(ValueAt(base, p).val) \subseteq KeySet(ValueAt(merged, p).val)
                   ELSE ValueAt(merged, p) = ValueAt(override, p)
                /\ ValueAt(override, p).tag = "list" =>
                       /\ ValueAt(merged, p).tag = "list"
                       /\ Range(ValueAt(merged, p).val) \subseteq Range(ValueAt(override, p).val)

\* C23 witness: in one merge the override has put a list in the place of a
\* list of the base and has been merged into a mapping of the base that has
\* a key the override does not have.
C23_Witness ==
    /\ Merged
    /\ LET base == config_state.defaults
           override == config_state.content.val
       IN  /\ \E p \in PathsOf(base) \cap PathsOf(override) :
                  ValueAt(base, p).tag = "list" /\ ValueAt(override, p).tag = "list"
           /\ \E p \in PathsOf(base) \cap PathsOf(override) :
                  /\ BothMappings(base, override, p)
                  /\ ~(KeySet(ValueAt(base, p).val) \subseteq KeySet(ValueAt(override, p).val))

-----------------------------------------------------------------------------
(***************************************************************************)
(* DocumentConfig.__init__: which configuration file is loaded             *)
(*                                                                         *)
(* A location is the explicit path or one of the standard paths.  A file   *)
(* at a location is absent, malformed or valid; a valid file at a location *)
(* sets page_size to the name of the location, so that the configuration   *)
(* tells which file was merged.                                            *)
(***************************************************************************)

StandardLocations == {"cwd", "env_dir", "os_dir", "home_fallback"}
Locations == {"explicit"} \cup StandardLocations
FileStates == {"absent", "malformed", "valid"}

Systems == {"windows", "darwin", "linux"}

\* os.environ.get('APPDATA') or os.environ.get('XDG_CONFIG_HOME'): unset, set
\* to the empty string, or set to a directory.
EnvValues == {None, Some(""), Some("dir")}

\* config_file: str | None
ConfigFiles == {None, Some(""), Some("explicit")}

\* get_default_config() of the base class, reduced to two of its keys.
DefaultConfig ==
    <<[k |-> "page_size", v |-> Scalar("letter")],
      [k |-> "output", v |-> Dict(<<[k |-> "merged_file", v |-> Scalar("False")]>>)]>>

\* What open() and json.load give for the file at a location.
ContentAt(files, location) ==
    IF files[location] = "valid"
    THEN Dict(<<[k |-> "page_size", v |-> Scalar(location)]>>)
    ELSE Malformed

\* os.path.exists(path) / Path.exists()
Exists(files, location) == files[location] # "absent"

\* Faulty variant of _get_config_search_paths: the home-directory fallback
\* is tried first.
_get_config_search_paths_FallbackFirst(system, env) ==
    <<"home_fallback">>
        \o (IF system \in {"windows", "linux"} /\ env # None /\ env[1] # ""
            THEN <<"env_dir">> ELSE <<>>)
        \o <<"os_dir", "cwd">>

\* _get_config_search_paths(): the current directory, the directory named by
\* APPDATA (windows) or XDG_CONFIG_HOME (neither windows nor darwin) when the
\* variable is set and not empty, the per-user directory of the system under
\* the home directory, the fallback under the home directory.
_get_config_search_paths(system, env) ==
    <<"cwd">>
        \o (IF system \in {"windows", "linux"} /\ env # None /\ env[1] # ""
            THEN <<"env_dir">> ELSE <<>>)
        \o <<"os_dir">>
        \o <<"home_fallback">>

\* Faulty variant of UseExplicit: the explicit path is ignored.
UseExplicit_Never(config_file, files) == FALSE

\* if config_file and os.path.exists(config_file)
UseExplicit(config_file, files) ==
    config_file # None /\ config_file[1] # "" /\ Exists(files, config_file[1])

ConfigInit ==
    /\ \E config_file \in ConfigFiles, system \in Systems, env \in EnvValues :
       \E files \in [Locations -> FileStates] :
          /\ system = "darwin" => env = None
          /\ config_state = [pc |-> "init", config_file |-> config_file,
                             system |-> system, env |-> env, files |-> files,
                             config |-> DefaultConfig, config_loaded |-> FALSE,
                             paths |-> <<>>, probed |-> <<>>, loaded |-> <<>>,
                             log |-> <<>>]
    /\ columns = {} /\ data = <<>> /\ document_range = None
    /\ doc_cfg = Unused /\ pc = "unused" /\ grouped_data = <<>> /\ doc_idx = 0
    /\ generated_files = <<>> /\ mkdir_calls = 0 /\ disk = <<>> /\ log = <<>>
    /\ error = None /\ result = None /\ produced = <<>> /\ read_failed = {}
    /\ main_state = Unused /\ totals_state = Unused /\ discover_state = Unused
    /\ customer_state = Unused /\ frame_state = Unused /\ calls = <<>>

\* self.load_config(path); config_loaded = True
LoadAt(location) ==
    LET r == load_config(config_state.config, ContentAt(config_state.files, location),
                         location)
    IN  config_state' = [config_state EXCEPT !.pc = "done",
                                             !.config = r.config,
                                             !.config_loaded = TRUE,
                                             !.loaded = Append(@, location),
                                             !.log = @ \o r.log]

\* The explicit path is given and exists: it is loaded and nothing is searched.
LoadExplicit ==
    /\ config_state.pc = "init"
    /\ UseExplicit(config_state.config_file, config_state.files)
    /\ LoadAt(config_state.config_file[1])
    /\ UNCHANGED <<gen_vars, more_vars, main_state, totals_state, discover_state>>

\* Otherwise the standard locations are listed for the search.
SearchStandard ==
    /\ config_state.pc = "init"
    /\ ~UseExplicit(config_state.config_file, config_state.files)
    /\ config_state' = [config_state EXCEPT
                           !.pc = "search",
                           !.paths = _get_config_search_paths(config_state.system,
                                                              config_state.env)]
    /\ UNCHANGED <<gen_vars, more_vars, main_state, totals_state, discover_state>>

\* The next path of the search, when one is left.
NextPath == config_state.paths[Len(config_state.probed) + 1]
PathsLeft == Len(config_state.probed) < Len(config_state.paths)

\* config_path.exists() is false: the loop goes on.
ProbeMissing ==
    /\ config_state.pc = "search" /\ PathsLeft
    /\ ~Exists(config_state.files, NextPath)
    /\ config_state' = [config_state EXCEPT !.probed = Append(@, NextPath)]
    /\ UNCHANGED <<gen_vars, more_vars, main_state, totals_state, discover_state>>

\* config_path.exists() is true: the file is loaded and the loop is left.
ProbeFound ==
    /\ config_state.pc = "search" /\ PathsLeft
    /\ Exists(config_state.files, NextPath)
    /\ LoadAt(NextPath)
    /\ UNCHANGED <<gen_vars, more_vars, main_state, totals_state, discover_state>>

\* The loop ends without a file: if not config_loaded, logger.info(...).
NoneFound ==
    /\ config_state.pc = "search" /\ ~PathsLeft
    /\ config_state' = [config_state EXCEPT
                           !.pc = "done",
                           !.log = Append(@, LogRecord("INFO", "No configuration file found",
                                                       ""))]
    /\ UNCHANGED <<gen_vars, more_vars, main_state, totals_state, discover_state>>

ConfigNext ==
    \/ LoadExplicit
    \/ SearchStandard
    \/ ProbeMissing
    \/ ProbeFound
    \/ NoneFound

ConfigSpec == ConfigInit /\ [][ConfigNext]_vars

-----------------------------------------------------------------------------
(* Properties of DocumentConfig.__init__ *)

Done == config_state.pc = "done"

\* An explicit path is given and a file exists there.
ExplicitExists ==
    config_state.config_file = Some("explicit") /\ config_state.files["explicit"] # "absent"

\* The defaults with the valid file of a location merged over them.
ExpectedConfig(location) ==
    [i \in DOMAIN DefaultConfig |->
        IF DefaultConfig[i].k = "page_size"
        THEN [k |-> "page_size", v |-> Scalar(location)]
        ELSE DefaultConfig[i]]

\* The fixed order of the standard locations: current directory, per-user
\* settings directory of the system (the one the environment names before
\* the one under the home directory), home-directory fallback.
Rank(location) ==
    CASE location = "cwd" -> 1
      [] location = "env_dir" -> 2
      [] location = "os_dir" -> 3
      [] location = "home_fallback" -> 4

\* The standard locations of a system and environment.
Candidates ==
    {"cwd", "os_dir", "home_fallback"}
        \cup (IF config_state.system # "darwin" /\ config_state.env = Some("dir")
              THEN {"env_dir"} ELSE {})

\* The candidates in which a file exists, under a given state of the files.
ExistingIn(files) == {l \in Candidates : files[l] # "absent"}

FirstOf(locations) == CHOOSE l \in locations : \A m \in locations : Rank(l) <= Rank(m)

RangeOf(seq) == {seq[i] : i \in DOMAIN seq}

\* C14: when an explicit path is given and the file exists, that file is
\* merged over the defaults and no standard location is probed or merged,
\* whatever files exist there.
C14_ExplicitFileStopsSearch ==
    ExplicitExists =>
        /\ config_state.pc # "search"
        /\ config_state.probed = <<>>
        /\ RangeOf(config_state.loaded) \cap StandardLocations = {}
        /\ Done =>
              /\ config_state.loaded = <<"explicit">>
              /\ config_state.files["explicit"] = "valid" =>
                     ValEq(Dict(config_state.config), Dict(ExpectedConfig("explicit")))

\* C14 witness: the explicit file was merged while files exist in the
\* current directory and in the home-directory fallback.
C14_Witness ==
    /\ Done /\ ExplicitExists
    /\ config_state.files["explicit"] = "valid"
    /\ config_state.files["cwd"] = "valid"
    /\ config_state.files["home_fallback"] = "valid"
    /\ config_state.loaded = <<"explicit">>

\* C15: without an explicit path, or with one that does not exist, the
\* standard locations are probed in the fixed order and only the first one
\* that exists is merged; later existing locations are neither probed nor
\* merged, and with no existing location the configuration is the defaults.
C15_FirstExistingStandardLocation ==
    ~ExplicitExists =>
        LET existing == ExistingIn(config_state.files)
            probed == config_state.probed
        IN  /\ \A i, j \in DOMAIN probed : i < j => Rank(probed[i]) < Rank(probed[j])
            /\ Done /\ existing = {} =>
                   /\ config_state.loaded = <<>>
                   /\ RangeOf(probed) = Candidates
                   /\ config_state.config = DefaultConfig
            /\ Done /\ existing # {} =>
                   /\ config_state.loaded = <<FirstOf(existing)>>
                   /\ RangeOf(probed) = {l \in Candidates : Rank(l) < Rank(FirstOf(existing))}
                   /\ config_state.files[FirstOf(existing)] = "valid" =>
                          ValEq(Dict(config_state.config),
                                Dict(ExpectedConfig(FirstOf(existing))))

\* C15 witness: the explicit path does not exist, the current directory has
\* no file, and of the two later locations that have one the earlier was
\* merged.
C15_Witness ==
    /\ Done
    /\ config_state.config_file = Some("explicit")
    /\ config_state.files["explicit"] = "absent"
    /\ config_state.files["cwd"] = "absent"
    /\ config_state.files["os_dir"] = "valid"
    /\ config_state.files["home_fallback"] = "valid"
    /\ "env_dir" \notin Candidates
    /\ config_state.loaded = <<"os_dir">>

\* The file that resolution loaded is malformed.
LoadedMalformed ==
    /\ config_state.loaded # <<>>
    /\ config_state.files[config_state.loaded[1]] = "malformed"

ErrorLogged(location) ==
    \E i \in DOMAIN config_state.log :
        config_state.log[i].level = "ERROR" /\ config_state.log[i].path = location

\* The files as they would be with no malformed file among them.
WithoutMalformed ==
    [l \in Locations |->
        IF config_state.files[l] = "malformed" THEN "absent" ELSE config_state.files[l]]

\* C16: a malformed override file is reported and treated as if it did not
\* exist: resolution completes and the configuration is the one resolution
\* gives when the file is absent.
C16_MalformedAsAbsent ==
    LoadedMalformed =>
        /\ Done
        /\ ErrorLogged(config_state.loaded[1])
        /\ LET files == WithoutMalformed
               explicit == config_state.config_file = Some("explicit") /\ files["explicit"] # "absent"
           IN  ValEq(Dict(config_state.config),
                     Dict(IF explicit THEN ExpectedConfig("explicit")
                          ELSE IF ExistingIn(files) = {} THEN DefaultConfig
                          ELSE ExpectedConfig(FirstOf(ExistingIn(files)))))

-----------------------------------------------------------------------------
(***************************************************************************)
(* main: the generation path of the command line entry point               *)
(*                                                                         *)
(* main builds the configuration, loads the data and calls                 *)
(* generate_documents, whose actions are those above; any exception on the *)
(* way is caught, logged and turned into the exit code.                    *)
(***************************************************************************)

\* args.source: not given (or empty), or a path whose file is missing, has an
\* unsupported extension, cannot be read by pandas, or loads.
SourceStates == {"not_given", "missing", "unsupported", "unreadable", "ok"}

\* args.range as given to generate_documents by main.
MainRanges == {None, Some(<<"1">>)}

\* The configuration of the invoice type when no file is merged.
DefaultDocConfig ==
    CHOOSE c \in Configs : c.output.individual_files /\ ~c.output.merged_file

\* Faulty variant of MainExit: the exit code is zero whatever happened.
MainExit_Zero(raised) == IF raised THEN 0 ELSE 0

\* return 1 in the except clause, return 0 after the try statement
MainExit(raised) == IF raised THEN 1 ELSE 0

MainInit ==
    /\ main_state \in [pc : {"start"}, source : SourceStates, config_file : FileStates,
                       exit_code : {None}, log : {<<>>}]
    /\ columns = {} /\ data = <<>> /\ document_range = None
    /\ doc_cfg = Unused /\ pc = "idle" /\ grouped_data = <<>> /\ doc_idx = 0
    /\ generated_files = <<>> /\ mkdir_calls = 0 /\ disk = <<>> /\ log = <<>>
    /\ error = None /\ result = None /\ produced = <<>> /\ read_failed = {}
    /\ config_state = Unused /\ totals_state = Unused /\ discover_state = Unused
    /\ customer_state = Unused /\ frame_state = Unused /\ calls = <<>>

\* if not args.source: print(...); return 1
MainNoSource ==
    /\ main_state.pc = "start"
    /\ main_state.source = "not_given"
    /\ main_state' = [main_state EXCEPT !.pc = "exited", !.exit_code = Some(1)]
    /\ UNCHANGED <<gen_vars, more_vars, config_state, totals_state, discover_state>>

\* config = DocumentConfig(args.config): a valid file gives the configuration
\* it describes; a malformed file is logged by load_config and leaves the
\* defaults, as does the absence of any file.
MainLoadConfig ==
    /\ main_state.pc = "start"
    /\ main_state.source # "not_given"
    /\ \E user \in Configs :
          doc_cfg' = IF main_state.config_file = "valid" THEN user ELSE DefaultDocConfig
    /\ main_state' = [main_state EXCEPT
                         !.pc = "configured",
                         !.log = IF main_state.config_file = "malformed"
                                 THEN Append(@, LogRecord("ERROR", "Error loading config file",
                                                          "config"))
                                 ELSE @]
    /\ UNCHANGED <<columns, data, document_range, pc, grouped_data, doc_idx,
                   generated_files, mkdir_calls, disk, log, error, result, produced,
                   read_failed, config_state, totals_state, discover_state, more_vars>>

\* DataLoader.load_data(args.source) raises: the file is missing, its
\* extension is not supported or pandas cannot read it; main logs and returns.
MainLoadDataFails ==
    /\ main_state.pc = "configured"
    /\ main_state.source \in {"missing", "unsupported", "unreadable"}
    /\ main_state' = [main_state EXCEPT
                         !.pc = "exited",
                         !.exit_code = Some(MainExit(TRUE)),
                         !.log = Append(@, LogRecord("ERROR", "Error generating documents",
                                                     main_state.source))]
    /\ UNCHANGED <<gen_vars, more_vars, config_state, totals_state, discover_state>>

\* data = DataLoader.load_data(args.source) returns a table and main calls
\* generator.generate_documents(data, args.range).
MainLoadData ==
    /\ main_state.pc = "configured"
    /\ main_state.source = "ok"
    /\ \E cols \in ColumnSets :
       \E table \in Tables(cols), range \in MainRanges :
          /\ columns' = cols
          /\ data' = table
          /\ document_range' = range
    /\ pc' = "start"
    /\ main_state' = [main_state EXCEPT !.pc = "generating"]
    /\ UNCHANGED <<doc_cfg, grouped_data, doc_idx, generated_files, mkdir_calls, disk, log,
                   error, result, produced, read_failed, config_state, totals_state,
                   discover_state, more_vars>>

\* generate_documents returned: the files are printed and main returns 0.
MainSucceeds ==
    /\ main_state.pc = "generating"
    /\ pc = "done"
    /\ main_state' = [main_state EXCEPT !.pc = "exited",
                                        !.exit_code = Some(MainExit(FALSE))]
    /\ UNCHANGED <<gen_vars, more_vars, config_state, totals_state, discover_state>>

\* generate_documents raised: except Exception logs the error and returns 1.
MainFails ==
    /\ main_state.pc = "generating"
    /\ pc = "failed"
    /\ main_state' = [main_state EXCEPT
                         !.pc = "exited",
                         !.exit_code = Some(MainExit(TRUE)),
                         !.log = Append(@, LogRecord("ERROR", "Error generating documents",
                                                     "generate_documents"))]
    /\ UNCHANGED <<gen_vars, more_vars, config_state, totals_state, discover_state>>

MainNext ==
    \/ MainNoSource
    \/ MainLoadConfig
    \/ MainLoadDataFails
    \/ MainLoadData
    \/ Next
    \/ MainSucceeds
    \/ MainFails

MainSpec == MainInit /\ [][MainNext]_vars

-----------------------------------------------------------------------------
(* Properties of main *)

Exited == main_state.pc = "exited"

\* The data was loaded and lacks the document number column.
FieldMissing ==
    main_state.pc \in {"generating", "exited"} /\ main_state.source = "ok" /\ ~HasDocumentField

\* The source was given and cannot be loaded.
DataLoadFails == main_state.source \in {"missing", "unsupported", "unreadable"}

\* The configuration file is malformed and main has built the configuration.
ConfigMalformed ==
    /\ main_state.pc # "start" /\ main_state.source # "not_given"
    /\ main_state.config_file = "malformed"

NothingWritten == disk = <<>> /\ generated_files = <<>>

\* C17: a fatal error (malformed configuration, missing key field, data-load
\* failure) leaves no output file written and makes main return non-zero,
\* and main returns zero only when generation completed.
C17_FatalErrorsAbortBeforeOutput ==
    /\ ConfigMalformed \/ FieldMissing \/ DataLoadFails =>
           /\ NothingWritten
           /\ Exited => main_state.exit_code # Some(0)
    /\ Exited /\ main_state.exit_code = Some(0) => pc = "done" /\ result # None

\* C17 (amended): a missing key field or a data-load failure leaves no
\* output file written and no output directory created, and makes main
\* return non-zero; every exception of generate_documents makes main return
\* non-zero; main returns zero only when generate_documents returned; a
\* malformed configuration file is logged and the run goes on with the
\* default configuration.
C17_DataErrorsAbortBeforeOutput ==
    /\ FieldMissing \/ DataLoadFails =>
           /\ NothingWritten /\ mkdir_calls = 0
           /\ Exited => main_state.exit_code = Some(1)
    /\ Exited /\ pc = "failed" => main_state.exit_code = Some(1)
    /\ Exited /\ main_state.exit_code = Some(0) => pc = "done" /\ result # None
    /\ ConfigMalformed =>
           /\ doc_cfg = DefaultDocConfig
           /\ \E i \in DOMAIN main_state.log : main_state.log[i].level = "ERROR"

\* C17 witness: with a malformed configuration file and a table without the
\* document number column main has returned 1 with nothing written.
C17_Witness ==
    /\ Exited /\ ConfigMalformed /\ FieldMissing
    /\ data # <<>>
    /\ main_state.exit_code = Some(1)
    /\ NothingWritten

-----------------------------------------------------------------------------
(***************************************************************************)
(* _create_totals_section: subtotal, tax and total of one document         *)
(*                                                                         *)
(* Amounts are exact decimals counted in hundredths of a cent, tax rates   *)
(* in percent; the rounding error of the float arithmetic, far below the   *)
(* cent that format_currency prints, is left out.                          *)
(***************************************************************************)

\* An amount of whole cents.
Cents(c) == c * 100

\* The rows of a group: quantity and unit price.
LineItems ==
    {[quantity |-> 40, unit_price |-> Cents(7500)],
     [quantity |-> 1, unit_price |-> Cents(1500)],
     [quantity |-> 1, unit_price |-> Cents(5000)],
     [quantity |-> 3, unit_price |-> Cents(999)]}

\* calculations.tax_rate, in percent
TaxRates == {0, 8}

\* calculations.shipping_cost of the sales order type; the invoice type has
\* no such parameter.
ShippingCosts == {Cents(0), Cents(2500)}

DocumentTypes == {"invoice", "sales_order"}

\* quantity * unit_price
LineAmount(row) == row.quantity * row.unit_price

\* tax_amount = subtotal * tax_rate
TaxAmount(subtotal, tax_rate) == (subtotal * tax_rate) \div 100

\* Faulty variant of Total: the shipping cost is left out.
Total_NoShipping(subtotal, shipping_cost, tax_amount) == subtotal + tax_amount

\* total = subtotal + shipping_cost + tax_amount
Total(subtotal, shipping_cost, tax_amount) == subtotal + shipping_cost + tax_amount

TotalsInit ==
    /\ \E doc_type \in DocumentTypes, tax_rate \in TaxRates, shipping \in ShippingCosts :
       \E lines \in SeqsUpTo(LineItems, MaxRows) :
          /\ doc_type = "invoice" => shipping = Cents(0)
          /\ totals_state = [pc |-> "loop", doc_type |-> doc_type, rows |-> lines,
                             tax_rate |-> tax_rate, shipping_cost |-> shipping,
                             idx |-> 0, subtotal |-> 0, tax_amount |-> 0, total |-> 0]
    /\ columns = {} /\ data = <<>> /\ document_range = None
    /\ doc_cfg = Unused /\ pc = "unused" /\ grouped_data = <<>> /\ doc_idx = 0
    /\ generated_files = <<>> /\ mkdir_calls = 0 /\ disk = <<>> /\ log = <<>>
    /\ error = None /\ result = None /\ produced = <<>> /\ read_failed = {}
    /\ config_state = Unused /\ main_state = Unused /\ discover_state = Unused
    /\ customer_state = Unused /\ frame_state = Unused /\ calls = <<>>

\* One iteration of the loop over the rows: subtotal += quantity * unit_price
AddLine ==
    /\ totals_state.pc = "loop"
    /\ totals_state.idx < Len(totals_state.rows)
    /\ totals_state' = [totals_state EXCEPT
                           !.idx = @ + 1,
                           !.subtotal = @ + LineAmount(totals_state.rows[totals_state.idx + 1])]
    /\ UNCHANGED <<gen_vars, more_vars, config_state, main_state, discover_state>>

\* After the loop: the tax on the subtotal, then the total; the sales order
\* adds its shipping cost, the invoice has none.
ComputeTotals ==
    /\ totals_state.pc = "loop"
    /\ totals_state.idx = Len(totals_state.rows)
    /\ LET tax_amount == TaxAmount(totals_state.subtotal, totals_state.tax_rate)
       IN  totals_state' = [totals_state EXCEPT
                               !.pc = "done",
                               !.tax_amount = tax_amount,
                               !.total = Total(totals_state.subtotal,
                                               totals_state.shipping_cost, tax_amount)]
    /\ UNCHANGED <<gen_vars, more_vars, config_state, main_state, discover_state>>

TotalsNext == AddLine \/ ComputeTotals

TotalsSpec == TotalsInit /\ [][TotalsNext]_vars

-----------------------------------------------------------------------------
(* Properties of _create_totals_section *)

RECURSIVE SumOfLines(_)
SumOfLines(rows) ==
    IF rows = <<>> THEN 0
    ELSE Head(rows).quantity * Head(rows).unit_price + SumOfLines(Tail(rows))

\* The lines (40 x 75.00), (1 x 15.00), (1 x 50.00).
ExampleLines ==
    <<[quantity |-> 40, unit_price |-> Cents(7500)],
      [quantity |-> 1, unit_price |-> Cents(1500)],
      [quantity |-> 1, unit_price |-> Cents(5000)]>>

\* C18: the subtotal is the sum of quantity * unit_price over all rows, the
\* tax is the subtotal times the tax rate (shipping is not taxed) and the
\* total is subtotal + shipping cost + tax; for the lines (40 x 75.00),
\* (1 x 15.00), (1 x 50.00) at 8% the subtotal is 3065.00, the tax 245.20,
\* the total 3310.20 without shipping and 3335.20 with shipping 25.00.
C18_TotalsInFixedOrder ==
    totals_state.pc = "done" =>
        /\ totals_state.subtotal = SumOfLines(totals_state.rows)
        /\ totals_state.tax_amount * 100 = totals_state.subtotal * totals_state.tax_rate
        /\ totals_state.total =
               totals_state.subtotal + totals_state.shipping_cost + totals_state.tax_amount
        /\ totals_state.rows = ExampleLines /\ totals_state.tax_rate = 8 =>
               /\ totals_state.subtotal = Cents(306500)
               /\ totals_state.tax_amount = Cents(24520)
               /\ totals_state.shipping_cost = Cents(0) => totals_state.total = Cents(331020)
               /\ totals_state.shipping_cost = Cents(2500) => totals_state.total = Cents(333520)

\* C18 witness: the totals of a sales order with the example lines, 8% tax
\* and shipping 25.00 are computed.
C18_Witness ==
    /\ totals_state.pc = "done"
    /\ totals_state.doc_type = "sales_order"
    /\ totals_state.rows = ExampleLines
    /\ totals_state.tax_rate = 8
    /\ totals_state.shipping_cost = Cents(2500)
    /\ totals_state.total = Cents(333520)

-----------------------------------------------------------------------------
(* Properties of the file names *)

\* The base class default template document_{document_number}.pdf.
DocumentTemplateConfig ==
    [output |-> [filename_template |-> <<"document_", "{document_number}", ".pdf">>]]

\* C19: each document is written to output_directory / filename, the filename
\* being the configured template with the document key in the place of
\* {document_number}; the template document_{document_number}.pdf and the key
\* INV-001 give document_INV-001.pdf.
C19_WrittenAtTemplatePath ==
    /\ Len(generated_files) = Len(produced)
    /\ \A i \in DOMAIN produced :
          /\ generated_files[i] = [dir |-> "invoices",
                                   name |-> <<"invoice_", produced[i], ".pdf">>]
          /\ generated_files[i] \in DOMAIN disk
    /\ _generate_filename(DocumentTemplateConfig, "INV-001")
           = <<"document_", "INV-001", ".pdf">>

\* C19 witness: two documents with different keys have been written, each
\* to its own path.
C19_Witness ==
    /\ Len(produced) = 2
    /\ produced[1] # produced[2]
    /\ generated_files[1] # generated_files[2]
    /\ {generated_files[1], generated_files[2]} \subseteq DOMAIN disk

-----------------------------------------------------------------------------
(***************************************************************************)
(* discover_document_types: the plugin modules of document_types/          *)
(***************************************************************************)

MaxPlugins == 3   \* number of *.py files in the directory

\* What a *.py file of the directory is: a file whose name starts with __, a
\* module with get_document_info giving a display_name, one whose info has
\* no display_name, one without get_document_info, one whose import raises,
\* one whose get_document_info raises, one whose get_document_info returns
\* something without a get method.  What is raised is an Exception.
PluginKinds ==
    {"dunder", "with_display_name", "without_display_name", "without_info",
     "import_raises", "info_raises", "info_not_a_dict"}

RaisingKinds == {"import_raises", "info_raises", "info_not_a_dict"}

\* py_file.stem of the i-th file that glob yields
ModuleName(i) == <<"module", i>>

\* module_name.title()
Title(module_name) == <<"title", module_name>>

\* The value stored for a module that loads: info.get('display_name',
\* module_name.title()) or module_name.title().
DisplayName(module_name, kind) ==
    IF kind = "with_display_name" THEN <<"display_name", module_name>>
    ELSE Title(module_name)

\* Faulty variant of AfterWarning: the loop is left at the first plugin that
\* raises.
AfterWarning_Break(idx, files) == Len(files)

\* After logger.warning in the except clause the loop goes on with the next
\* file.
AfterWarning(idx, files) == idx + 1

DiscoverInit ==
    /\ \E dir_exists \in BOOLEAN :
       \E files \in SeqsUpTo(PluginKinds, MaxPlugins) :
          /\ ~dir_exists => files = <<>>
          /\ discover_state = [pc |-> "start", dir_exists |-> dir_exists, files |-> files,
                               idx |-> 0, document_types |-> <<>>, warnings |-> <<>>,
                               result |-> None]
    /\ columns = {} /\ data = <<>> /\ document_range = None
    /\ doc_cfg = Unused /\ pc = "unused" /\ grouped_data = <<>> /\ doc_idx = 0
    /\ generated_files = <<>> /\ mkdir_calls = 0 /\ disk = <<>> /\ log = <<>>
    /\ error = None /\ result = None /\ produced = <<>> /\ read_failed = {}
    /\ config_state = Unused /\ main_state = Unused /\ totals_state = Unused
    /\ customer_state = Unused /\ frame_state = Unused /\ calls = <<>>

\* if not doc_types_dir.exists(): return document_types
DirectoryMissing ==
    /\ discover_state.pc = "start"
    /\ ~discover_state.dir_exists
    /\ discover_state' = [discover_state EXCEPT !.pc = "returned",
                                                !.result = Some(discover_state.document_types)]
    /\ UNCHANGED <<gen_vars, more_vars, config_state, main_state, totals_state>>

\* for py_file in doc_types_dir.glob('*.py')
StartLoop ==
    /\ discover_state.pc = "start"
    /\ discover_state.dir_exists
    /\ discover_state' = [discover_state EXCEPT !.pc = "loop"]
    /\ UNCHANGED <<gen_vars, more_vars, config_state, main_state, totals_state>>

NextFile == discover_state.files[discover_state.idx + 1]
FilesLeft == discover_state.pc = "loop" /\ discover_state.idx < Len(discover_state.files)

\* if py_file.name.startswith('__'): continue
SkipDunder ==
    /\ FilesLeft
    /\ NextFile = "dunder"
    /\ discover_state' = [discover_state EXCEPT !.idx = @ + 1]
    /\ UNCHANGED <<gen_vars, more_vars, config_state, main_state, totals_state>>

\* The module is imported and probed and its display name is stored.
LoadPlugin ==
    /\ FilesLeft
    /\ NextFile \notin RaisingKinds \cup {"dunder"}
    /\ LET module_name == ModuleName(discover_state.idx + 1)
       IN  discover_state' = [discover_state EXCEPT
                                 !.idx = @ + 1,
                                 !.document_types =
                                     DictSet(@, module_name, DisplayName(module_name, NextFile))]
    /\ UNCHANGED <<gen_vars, more_vars, config_state, main_state, totals_state>>

\* The import or the probe raises: except Exception logs a warning.
PluginRaises ==
    /\ FilesLeft
    /\ NextFile \in RaisingKinds
    /\ discover_state' = [discover_state EXCEPT
                             !.idx = AfterWarning(discover_state.idx, discover_state.files),
                             !.warnings = Append(@, ModuleName(discover_state.idx + 1))]
    /\ UNCHANGED <<gen_vars, more_vars, config_state, main_state, totals_state>>

\* return document_types
DiscoverReturn ==
    /\ discover_state.pc = "loop"
    /\ discover_state.idx = Len(discover_state.files)
    /\ discover_state' = [discover_state EXCEPT !.pc = "returned",
                                                !.result = Some(discover_state.document_types)]
    /\ UNCHANGED <<gen_vars, more_vars, config_state, main_state, totals_state>>

DiscoverNext ==
    \/ DirectoryMissing
    \/ StartLoop
    \/ SkipDunder
    \/ LoadPlugin
    \/ PluginRaises
    \/ DiscoverReturn

DiscoverSpec == DiscoverInit /\ [][DiscoverNext]_vars

-----------------------------------------------------------------------------
(* Properties of discover_document_types *)

\* The positions of the files of some kinds.
FilesOfKinds(kinds) == {i \in DOMAIN discover_state.files : discover_state.files[i] \in kinds}

\* C20: a plugin module that raises while being imported or probed is
\* skipped with a warning and is absent from the result, every other plugin
\* module, enumerated before or after it, is listed, and discovery returns
\* its result.
C20_BrokenPluginSkipped ==
    discover_state.pc = "returned" =>
        /\ discover_state.result # None
        /\ LET listed == KeySet(discover_state.result[1])
               warned == RangeOf(discover_state.warnings)
           IN  /\ listed = {ModuleName(i) :
                               i \in FilesOfKinds(PluginKinds \ (RaisingKinds \cup {"dunder"}))}
               /\ warned = {ModuleName(i) : i \in FilesOfKinds(RaisingKinds)}
               /\ listed \cap warned = {}

\* C20 witness: a plugin that raises stands between two that load, and both
\* of these are in the result.
C20_Witness ==
    /\ discover_state.pc = "returned"
    /\ Len(discover_state.files) = 3
    /\ discover_state.files[1] = "with_display_name"
    /\ discover_state.files[2] \in RaisingKinds
    /\ discover_state.files[3] = "without_info"
    /\ KeySet(discover_state.result[1]) = {ModuleName(1), ModuleName(3)}

-----------------------------------------------------------------------------
(***************************************************************************)
(* _create_customer_info / _create_customer_shipping_info: the text of a   *)
(* Bill To or Ship To block, built from the first row of the group         *)
(*                                                                         *)
(* The text is the heading followed by one line (value and <br/>) per      *)
(* field appended; it is kept as the sequence of those lines.              *)
(***************************************************************************)

\* The optional fields a block can be configured with.
CustomerFields == {"customer_name", "customer_address", "customer_email"}

\* The text a field holds when it has a value; every field has its own.
ValueText(field) ==
    CASE field = "customer_name" -> "Acme Corp"
      [] field = "customer_address" -> "1 Main St"
      [] field = "customer_email" -> "billing@acme.test"

\* A cell of the first row: the field's value or a missing value.
CellOf(field, present) == IF present THEN [t |-> "str", v |-> ValueText(field)] ELSE NaN

\* fields.customer_fields / fields.shipping_fields: a list of distinct names
FieldLists ==
    {fields \in SeqsUpTo(CustomerFields, Cardinality(CustomerFields)) :
        \A i, j \in DOMAIN fields : i # j => fields[i] # fields[j]}

\* The first rows over every set of columns.
FirstRecords ==
    UNION {{[c \in cols |-> CellOf(c, c \in present)] : present \in SUBSET cols} :
           cols \in SUBSET CustomerFields}

\* pd.notna(value)
NotNa(value) == value.t # "missing"

\* Faulty variant of FieldPresent: only the presence of the column is tested.
FieldPresent_ColumnOnly(first_record, field) == field \in DOMAIN first_record

\* field in first_record and pd.notna(first_record[field])
FieldPresent(first_record, field) ==
    field \in DOMAIN first_record /\ NotNa(first_record[field])

\* The line f"{first_record[field]}<br/>"
LineOf(value) == Str(value)

CustomerInit ==
    /\ \E heading \in {"Bill To:", "Ship To:"}, fields \in FieldLists,
          first_record \in FirstRecords :
          customer_state = [pc |-> "loop", heading |-> heading, fields |-> fields,
                            first_record |-> first_record, idx |-> 0, lines |-> <<>>]
    /\ columns = {} /\ data = <<>> /\ document_range = None
    /\ doc_cfg = Unused /\ pc = "unused" /\ grouped_data = <<>> /\ doc_idx = 0
    /\ generated_files = <<>> /\ mkdir_calls = 0 /\ disk = <<>> /\ log = <<>>
    /\ error = None /\ result = None /\ produced = <<>> /\ read_failed = {}
    /\ config_state = Unused /\ main_state = Unused /\ totals_state = Unused
    /\ discover_state = Unused /\ calls = <<>> /\ frame_state = Unused

NextField == customer_state.fields[customer_state.idx + 1]
FieldsLeft == customer_state.pc = "loop" /\ customer_state.idx < Len(customer_state.fields)

\* The field is in the row and its value is not missing: its line is appended.
AppendField ==
    /\ FieldsLeft
    /\ FieldPresent(customer_state.first_record, NextField)
    /\ customer_state' = [customer_state EXCEPT
                             !.idx = @ + 1,
                             !.lines = Append(@, LineOf(customer_state.first_record[NextField]))]
    /\ UNCHANGED <<gen_vars, config_state, main_state, totals_state, discover_state, calls, frame_state>>

\* Otherwise the loop goes on to the next field.
SkipField ==
    /\ FieldsLeft
    /\ ~FieldPresent(customer_state.first_record, NextField)
    /\ customer_state' = [customer_state EXCEPT !.idx = @ + 1]
    /\ UNCHANGED <<gen_vars, config_state, main_state, totals_state, discover_state, calls, frame_state>>

\* After the loop the text goes into the Paragraph of the table.
BuildBlock ==
    /\ customer_state.pc = "loop"
    /\ customer_state.idx = Len(customer_state.fields)
    /\ customer_state' = [customer_state EXCEPT !.pc = "done"]
    /\ UNCHANGED <<gen_vars, config_state, main_state, totals_state, discover_state, calls, frame_state>>

CustomerNext == AppendField \/ SkipField \/ BuildBlock

CustomerSpec == CustomerInit /\ [][CustomerNext]_vars

-----------------------------------------------------------------------------
(* Properties of the customer block *)

\* The configured fields that the row has with a value, in configured order.
FieldsWithValue ==
    SelectSeq(customer_state.fields,
              LAMBDA f : /\ f \in DOMAIN customer_state.first_record
                         /\ customer_state.first_record[f].t = "str")

\* C21: a configured field that is absent from the table or whose value is
\* missing in the first row contributes no line to the block, neither an
\* empty one nor a literal nan, and the fields that are present appear in
\* their configured order.
C21_MissingFieldOmitted ==
    customer_state.pc = "done" =>
        /\ customer_state.lines =
               [i \in DOMAIN FieldsWithValue |-> ValueText(FieldsWithValue[i])]
        /\ \A i \in DOMAIN customer_state.lines : customer_state.lines[i] \notin {"", "nan", "None"}

\* C21 witness: of three configured fields the first is missing in the row,
\* the second is not a column and the third has a value, which is the only
\* line of the block.
C21_Witness ==
    /\ customer_state.pc = "done"
    /\ Len(customer_state.fields) = 3
    /\ customer_state.fields[1] \in DOMAIN customer_state.first_record
    /\ customer_state.first_record[customer_state.fields[1]] = NaN
    /\ customer_state.fields[2] \notin DOMAIN customer_state.first_record
    /\ Len(customer_state.lines) = 1

-----------------------------------------------------------------------------
(***************************************************************************)
(* Two calls of generate_documents in succession                           *)
(*                                                                         *)
(* The second call gets the table, the configuration and the filter of     *)
(* the first and finds the output directory and the files as the first     *)
(* call left them.  calls holds what the finished call did.                *)
(***************************************************************************)

MaxRepeatRows == 2   \* rows of the table that is generated from twice

RepeatRanges == {None, Some(<<"1">>), Some(<<"A", "1">>)}

RepeatInit ==
    /\ columns \in ColumnSets
    /\ data \in {t \in Tables(columns) : Len(t) <= MaxRepeatRows}
    /\ document_range \in RepeatRanges
    /\ doc_cfg \in Configs
    /\ pc = "start"
    /\ grouped_data = <<>> /\ doc_idx = 0 /\ generated_files = <<>>
    /\ mkdir_calls = 0 /\ disk = <<>> /\ log = <<>>
    /\ error = None /\ result = None /\ produced = <<>> /\ read_failed = {}
    /\ config_state = Unused /\ main_state = Unused /\ totals_state = Unused
    /\ discover_state = Unused /\ customer_state = Unused /\ frame_state = Unused
    /\ calls = <<>>

\* What is kept of a call that has returned or raised.
CallRecord ==
    [pc |-> pc, keys |-> Keys(grouped_data), result |-> result, error |-> error,
     mkdir_calls |-> mkdir_calls, files |-> DOMAIN disk]

\* Faulty variant of CallAgain: the list of generated files outlives the call.
CallAgain_KeepFiles ==
    /\ pc \in {"done", "failed"}
    /\ calls = <<>>
    /\ calls' = <<CallRecord>>
    /\ pc' = "start"
    /\ grouped_data' = <<>> /\ doc_idx' = 0
    /\ mkdir_calls' = 0 /\ log' = <<>>
    /\ error' = None /\ result' = None /\ produced' = <<>> /\ read_failed' = {}
    /\ UNCHANGED <<columns, data, document_range, doc_cfg, disk, generated_files,
                   config_state, main_state, totals_state, discover_state,
                   customer_state, frame_state>>

\* The caller calls generate_documents(data, document_range) again: the
\* locals of the call are new, the files on disk are those of the first call.
CallAgain ==
    /\ pc \in {"done", "failed"}
    /\ calls = <<>>
    /\ calls' = <<CallRecord>>
    /\ pc' = "start"
    /\ grouped_data' = <<>> /\ doc_idx' = 0 /\ generated_files' = <<>>
    /\ mkdir_calls' = 0 /\ log' = <<>>
    /\ error' = None /\ result' = None /\ produced' = <<>> /\ read_failed' = {}
    /\ UNCHANGED <<columns, data, document_range, doc_cfg, disk,
                   config_state, main_state, totals_state, discover_state,
                   customer_state, frame_state>>

RepeatNext == Next \/ CallAgain

RepeatSpec == RepeatInit /\ [][RepeatNext]_vars

-----------------------------------------------------------------------------
(* Properties of the output directory and of repeated calls *)

\* The call has got as far as the loop over the documents.
ReachedLoop == pc \in {"loop", "done"} \/ (pc = "failed" /\ error[1].type # "ValueError")

\* C24: in every call of generate_documents that reaches the loop over the
\* documents the output directory has been created exactly once, and before
\* any document of the call was rendered; the creation does not fail when
\* the directory exists and leaves the files that are in it.
C24_DirectoryCreatedOnceBeforeRender ==
    /\ [](ReachedLoop => mkdir_calls = 1)
    /\ [](mkdir_calls = 0 => produced = <<>> /\ generated_files = <<>>)
    /\ [][pc = "filtered" =>
              /\ pc' = "loop" /\ mkdir_calls' = mkdir_calls + 1
              /\ error' = None /\ disk' = disk]_vars
    /\ [][mkdir_calls' # mkdir_calls => pc \in {"filtered", "done", "failed"}]_vars

\* C24 witness: the second call has created the directory that the first
\* call left with a file in it, and has then rendered a document.
C24_Witness ==
    /\ DirectoryExisted
    /\ calls[1].files # {}
    /\ pc = "loop"
    /\ mkdir_calls = 1
    /\ produced # <<>>

\* The paths of the individual documents among a set of paths.
IndividualPaths(paths) == paths \ {MergedFilename(doc_cfg)}

\* C27: two calls of generate_documents in succession with the same table,
\* configuration and filter that both return have the same groups in the
\* same key order and return the same list of individual paths; the second
\* call writes the individual files of the first again and fails neither at
\* the directory nor at a file because it exists.
C27_RegenerationRepeatable ==
    /\ (calls # <<>> /\ calls[1].pc = "done" /\ pc = "done") =>
           /\ Keys(grouped_data) = calls[1].keys
           /\ result = calls[1].result
           /\ IndividualPaths(DOMAIN disk) = IndividualPaths(calls[1].files)
    /\ (calls # <<>> /\ calls[1].pc = "done" /\ pc = "failed") =>
           error[1].type \in {"RenderError", "OSError"}

\* C27 witness: both calls have returned the same two paths.
C27_Witness ==
    /\ calls # <<>> /\ calls[1].pc = "done" /\ pc = "done"
    /\ Len(result[1]) = 2

-----------------------------------------------------------------------------
(* Properties of the order of the steps of one call *)

\* The step starts the merge: it writes the merged file or fails to open it.
MergeStep ==
    \/ ~MergedWritten /\ MergedWritten'
    \/ pc = "loop" /\ pc' = "failed" /\ error'[1].type = "OSError"

\* C25: within one call the documents are processed one after another in
\* the order of the groups: when a document is taken up, every document
\* before it has been rendered, written and listed; the merge starts only
\* after the last selected document has been processed, and at most once.
C25_SequentialThenMergeOnce ==
    /\ [](pc = "loop" =>
              /\ doc_idx = Len(generated_files)
              /\ produced = SubSeq(Keys(grouped_data), 1, doc_idx)
              /\ \A i \in 1..doc_idx : generated_files[i] \in DOMAIN disk
              /\ ~MergedWritten)
    /\ [][doc_idx' # doc_idx =>
              /\ doc_idx' = doc_idx + 1
              /\ grouped_data' = grouped_data
              /\ produced' = Append(produced, grouped_data[doc_idx + 1].k)]_vars
    /\ [][MergeStep =>
              /\ pc = "loop"
              /\ pc' \in {"done", "failed"}
              /\ doc_idx = Len(grouped_data)
              /\ produced = Keys(grouped_data)]_vars
    /\ [][(pc = "done" \/ pc = "failed") => (pc' = pc /\ disk' = disk)]_vars

\* C25 witness: two documents have been processed in the order of their
\* groups and the merged file has been written after them.
C25_Witness ==
    /\ pc = "done"
    /\ MergedWritten
    /\ Len(grouped_data) = 2
    /\ produced = Keys(grouped_data)

-----------------------------------------------------------------------------
(***************************************************************************)
(* The objects of one call of generate_documents                           *)
(*                                                                         *)
(* The heap is a sequence of objects and the identity of an object is its  *)
(* position.  A DataFrame object refers to the block that stores its rows  *)
(* and lists the rows of the block that are its own; two DataFrames that   *)
(* refer to one block share their storage.  The configuration is one       *)
(* mapping object that DocumentConfig.config, DocumentGenerator.config and *)
(* self.doc_cfg all refer to.                                              *)
(***************************************************************************)

MaxFrameRows == 2   \* rows of the table whose objects are followed

Block(cells) == [type |-> "block", cells |-> cells]
DataFrame(block, index) == [type |-> "DataFrame", block |-> block, index |-> index]
Mapping(val) == [type |-> "dict", val |-> val]

\* The rows of a DataFrame, in its order.
RowsOf(heap, df) ==
    [i \in DOMAIN heap[df].index |-> heap[heap[df].block].cells[heap[df].index[i]]]

\* A new DataFrame over a new block that holds the given rows; the new
\* DataFrame is the last object of the heap returned.
NewFrame(heap, rows) ==
    heap \o <<Block(rows), DataFrame(Len(heap) + 1, [i \in DOMAIN rows |-> i])>>

\* data[data[document_field] == doc_num]: selection by a boolean mask puts
\* the selected rows into a new DataFrame.
BoolIndex(heap, df, positions) ==
    NewFrame(heap, [i \in DOMAIN positions |-> RowsOf(heap, df)[positions[i]]])

\* filtered_data.copy()
Copy(heap, df) == NewFrame(heap, RowsOf(heap, df))

\* Faulty variant of GroupFrame: the group is a view of the rows of the table.
GroupFrame_View(heap, df, positions) ==
    Append(heap, DataFrame(heap[df].block,
                           [i \in DOMAIN positions |-> heap[df].index[positions[i]]]))

\* doc_data = data[data[document_field] == doc_num].copy(); doc_data is the
\* last object of the heap returned.
GroupFrame(heap, df, positions) ==
    LET selected == BoolIndex(heap, df, positions)
    IN  Copy(selected, Len(selected))

\* The loop of _group_document_data over the keys, on the heap: entries maps
\* each key string to the positions of its rows, grouped each key string
\* done so far to its DataFrame.
RECURSIVE AllocGroups(_, _, _, _)
AllocGroups(heap, df, entries, grouped) ==
    IF entries = <<>>
    THEN [heap |-> heap, grouped |-> grouped]
    ELSE LET h == GroupFrame(heap, df, Head(entries).v)
         IN  AllocGroups(h, df, Tail(entries),
                         DictSet(grouped, Head(entries).k, Len(h)))

FrameTables ==
    {t \in Tables({DocumentField, "customer_name"}) : Len(t) <= MaxFrameRows}

FrameRanges == {None, Some(<<"1">>)}

\* The table is object 2 over block 1, the configuration object 3.
FrameInit ==
    /\ \E rows \in FrameTables, range \in FrameRanges, cfg \in Configs :
          frame_state = [pc |-> "start", rows |-> rows, cfg |-> cfg, range |-> range,
                         heap |-> NewFrame(<<>>, rows) \o <<Mapping(cfg)>>,
                         data |-> 2, doc_cfg |-> 3,
                         grouped_data |-> <<>>, idx |-> 0]
    /\ columns = {} /\ data = <<>> /\ document_range = None
    /\ doc_cfg = Unused /\ pc = "unused" /\ grouped_data = <<>> /\ doc_idx = 0
    /\ generated_files = <<>> /\ mkdir_calls = 0 /\ disk = <<>> /\ log = <<>>
    /\ error = None /\ result = None /\ produced = <<>> /\ read_failed = {}
    /\ config_state = Unused /\ main_state = Unused /\ totals_state = Unused
    /\ discover_state = Unused /\ customer_state = Unused /\ calls = <<>>

\* The configuration as self.doc_cfg shows it.
FrameConfig == frame_state.heap[frame_state.doc_cfg].val

\* grouped_data = self._group_document_data(data, document_field), then the
\* filter, which makes a new mapping of the same DataFrames.
FrameGroupData ==
    /\ frame_state.pc = "start"
    /\ LET field == FrameConfig.fields.document_number_field
           entries == _group_document_data(RowsOf(frame_state.heap, frame_state.data), field)
           r == AllocGroups(frame_state.heap, frame_state.data, entries, <<>>)
       IN  frame_state' = [frame_state EXCEPT
                              !.pc = "loop",
                              !.heap = r.heap,
                              !.grouped_data = FilterByRange(r.grouped, frame_state.range)]
    /\ UNCHANGED <<gen_vars, config_state, main_state, totals_state, discover_state,
                   customer_state, calls>>

FrameInLoop ==
    /\ frame_state.pc = "loop"
    /\ FrameConfig.output.individual_files
    /\ frame_state.idx < Len(frame_state.grouped_data)

\* self._create_invoice_pdf(doc_data, str(filepath)): the section builders
\* read the first row and iterate over the rows of the group; they assign to
\* no cell, no column and no key of the configuration.
FrameBuildSections ==
    /\ FrameInLoop
    /\ frame_state' = [frame_state EXCEPT !.idx = @ + 1]
    /\ UNCHANGED <<gen_vars, config_state, main_state, totals_state, discover_state,
                   customer_state, calls>>

\* A section builder or the renderer raises.
FrameBuildRaises ==
    /\ FrameInLoop
    /\ frame_state' = [frame_state EXCEPT !.pc = "failed"]
    /\ UNCHANGED <<gen_vars, config_state, main_state, totals_state, discover_state,
                   customer_state, calls>>

\* The loop is over; merge_pdfs works on the files and the list is returned.
FrameReturn ==
    /\ frame_state.pc = "loop"
    /\ ~FrameInLoop
    /\ frame_state' = [frame_state EXCEPT !.pc = "done"]
    /\ UNCHANGED <<gen_vars, config_state, main_state, totals_state, discover_state,
                   customer_state, calls>>

FrameNext == FrameGroupData \/ FrameBuildSections \/ FrameBuildRaises \/ FrameReturn

FrameSpec == FrameInit /\ [][FrameNext]_vars

-----------------------------------------------------------------------------
(* Properties of the objects of one call *)

\* The blocks that store the rows of the groups.
GroupBlocks ==
    [i \in DOMAIN frame_state.grouped_data |->
        frame_state.heap[frame_state.grouped_data[i].v].block]

\* C26: generate_documents leaves the configuration and the table as they
\* were: at every point of a call, whether it returns or fails, with or
\* without a filter, the configuration mapping and the rows of the table
\* equal their values before the call; every group is a copy: its storage
\* holds its own rows and is neither the table's nor another group's.
C26_ConfigAndTableUnchanged ==
    /\ FrameConfig = frame_state.cfg
    /\ RowsOf(frame_state.heap, frame_state.data) = frame_state.rows
    /\ \A i \in DOMAIN GroupBlocks :
           /\ GroupBlocks[i] # frame_state.heap[frame_state.data].block
           /\ \A j \in DOMAIN GroupBlocks : i # j => GroupBlocks[i] # GroupBlocks[j]
           /\ frame_state.heap[GroupBlocks[i]].cells =
                  RowsOf(frame_state.heap, frame_state.grouped_data[i].v)

\* C26 witness: a call with a filter has ended, after building a document
\* from a group, for a table with rows of two keys.
C26_Witness ==
    /\ frame_state.pc \in {"done", "failed"}
    /\ frame_state.range # None
    /\ frame_state.idx = 1
    /\ Len(frame_state.rows) = 2
    /\ frame_state.rows[1] # frame_state.rows[2]

-----------------------------------------------------------------------------
(* Properties of the filter and of the merged file *)

\* The first row of the table whose key string is k.
FirstAppearance(k) == Head(RowsWithKeyString(KeyColumn, k))

\* A call with individual files and a filter that is not empty has returned.
ReturnedFiltered == pc = "done" /\ IndividualFiles /\ Truthy(document_range)

\* C28: the filter changes neither order nor multiplicity: under a filter
\* the documents are generated in the order in which their keys first appear
\* in the table, whatever the order of the keys in the filter list, and a
\* key that the list repeats gives one document and one returned path.
C28_FilterKeepsOrderAndMultiplicity ==
    ReturnedFiltered =>
        /\ \A i, j \in DOMAIN produced :
               i < j => FirstAppearance(produced[i]) < FirstAppearance(produced[j])
        /\ Range(produced) = Range(KeyStrings(KeyColumn)) \cap Range(document_range[1])
        /\ result[1] = [i \in DOMAIN produced |-> FilePath(produced[i])]
        /\ \A i, j \in DOMAIN result[1] : i # j => result[1][i] # result[1][j]

\* C28 witness: the filter lists two keys in the order opposite to that of
\* the table and both documents have been generated.
C28_Witness ==
    /\ ReturnedFiltered
    /\ Len(document_range[1]) = 2
    /\ Len(produced) = 2
    /\ produced[1] = document_range[1][2]
    /\ produced[2] = document_range[1][1]

\* The call has returned without a document to merge: individual files are
\* switched off, the filter selects no key, or the table has no rows.
NothingToMerge ==
    /\ pc = "done"
    /\ ~IndividualFiles \/ SelectedKeys = {} \/ data = <<>>

\* C29: a merged file is written only if merged_file is true and the call
\* has produced at least one individual file: when individual_files is
\* false, the filter selects no key or the table has no rows, the call
\* writes no merged file and returns the empty list, even if merged_file is
\* true.
C29_MergedOnlyWithIndividualFiles ==
    /\ MergedWritten =>
           /\ doc_cfg.output.merged_file
           /\ generated_files # <<>>
           /\ \A i \in DOMAIN generated_files : generated_files[i] \in DOMAIN disk
    /\ NothingToMerge => (~MergedWritten /\ result = Some(<<>>))

\* C29 witness: merged_file is true and individual_files false; the call on
\* a table with rows has returned without a merged file.
C29_Witness ==
    /\ NothingToMerge
    /\ doc_cfg.output.merged_file
    /\ ~IndividualFiles
    /\ data # <<>>
    /\ ~MergedWritten

-----------------------------------------------------------------------------
(***************************************************************************)
(* generate_documents under a filename template without the placeholder    *)
(*                                                                         *)
(* output.filename_template comes from the configuration file as it is; a  *)
(* template without {document_number}, like the "layout_demo.pdf" of the   *)
(* layout demo, is formatted to itself for every key.                      *)
(***************************************************************************)

MaxTemplateRows == 2   \* rows of the table generated under either template

TemplateConfigs ==
    [fields : [document_number_field : {DocumentField}],
     output : [individual_files : BOOLEAN,
               merged_file : BOOLEAN,
               output_directory : {"invoices"},
               filename_template : {<<"invoice_", "{document_number}", ".pdf">>,
                                    <<"layout_demo.pdf">>}]]

TemplateInit ==
    /\ columns \in ColumnSets
    /\ data \in {t \in Tables(columns) : Len(t) <= MaxTemplateRows}
    /\ document_range \in {None, Some(<<"1">>)}
    /\ doc_cfg \in TemplateConfigs
    /\ pc = "start"
    /\ grouped_data = <<>> /\ doc_idx = 0 /\ generated_files = <<>>
    /\ mkdir_calls = 0 /\ disk = <<>> /\ log = <<>>
    /\ error = None /\ result = None /\ produced = <<>> /\ read_failed = {}
    /\ config_state = Unused /\ main_state = Unused /\ totals_state = Unused
    /\ discover_state = Unused /\ customer_state = Unused /\ frame_state = Unused
    /\ calls = <<>>

TemplateSpec == TemplateInit /\ [][Next]_vars

\* C30: one document per distinct key: a call with individual_files true
\* that returns has one path per selected group in the returned list, no
\* two of them equal, and the file at each path holds the pages of its own
\* document, for every configured filename template.
C30_OnePathPerGroup ==
    (pc = "done" /\ IndividualFiles) =>
        /\ Len(result[1]) = Len(grouped_data)
        /\ \A i, j \in DOMAIN result[1] : i # j => result[1][i] # result[1][j]
        /\ \A i \in DOMAIN produced :
               \A n \in DOMAIN disk[result[1][i]] :
                   disk[result[1][i]][n].doc = produced[i]
====
